---------------------------- MODULE Spec2Model ----------------------------
(***************************************************************************)
(* Resumable sequential job orchestrator of the Porto Seguro cancellation  *)
(* automation: the Express control surface (server.ts), AutomacaoService,  *)
(* StatusService, DatabaseService and the retry wrapper processarRegistro. *)
(*                                                                         *)
(* Node runs one callback at a time, so a handler or the processing loop   *)
(* runs without interruption from one await to the next.  Every action     *)
(* below is one such stretch of code.  A database call takes effect when   *)
(* it is issued (sqlite3 runs the statements of the one connection in the  *)
(* order they were issued); the code after the await is the next action.   *)
(* Where the loop awaits saveRecords next to a write of the session row    *)
(* before an item, the two calls are one action: no handler reads or       *)
(* writes anything between them that the two calls do not commute with.    *)
(* After an item the status is published first, so the write of the        *)
(* session row that follows saveRecords is an action of its own.           *)
(*                                                                         *)
(* Indices i, startIndex and currentIndex are 0-based as in the code; a    *)
(* TLA+ sequence is 1-based, so records[i] of the code is records[i + 1].  *)
(***************************************************************************)
EXTENDS Integers, Sequences, FiniteSets, TLC

\* ------------------------------------------------------------- bounds
\* Longest uploaded spreadsheet.
MaxItems == 3
\* AutomacaoService instances created (runs begun) in one behaviour.
MaxRuns == 2

\* Runs begun in one behaviour of SpecStarts, and its longest spreadsheet.
MaxStarts == 3
MaxItemsStarts == 1

\* Greatest maxRetries a call of processarRegistro is tried with.
MaxAttempts == 3

\* Calls of StatusService.addLog in one behaviour of SpecLogs.
MaxLogs == 102

\* Rows of execution_sessions a call of getActiveSession is tried with, and
\* the latest instant (in ms from the first) at which one of them was created.
MaxSessions == 3
MaxClock == 11

\* POST /api/pausar requests accepted in one behaviour of SpecLive.
MaxPauses == 1

\* ------------------------------------------------ program constants
\* automationConfig.maxRetries: parseInt(process.env.MAX_RETRIES || "2", 10)
maxRetries == 2

\* "Manter apenas os ultimos 100 logs": if (this.logs.length > 100)
\*   this.logs = this.logs.slice(0, 100)
LogCapacity == 100

\* PolicyRecord["status"]
Statuses == {"pendente", "processando", "cancelado", "erro"}

\* Statuses of the rows of an uploaded spreadsheet.  readSpreadsheet can
\* give a row any status; the model uploads rows pendente and cancelado (a
\* row erro or processando comes about in a run, and is met again by the
\* runs begun after it).
UploadStatuses == {"pendente", "cancelado"}

\* The predicate of every filter and findIndex of server.ts:
\*   (r) => r.status === "pendente" || r.status === "erro"
IsOpen(r) == r.status = "pendente" \/ r.status = "erro"

\* A fresh PolicyRecord as far as the orchestrator reads and writes it.
Rec(st, note) == [status |-> st, observacao |-> note]

\* records.findIndex(IsOpen): 0-based index of the first match, -1 if none.
FindIndex(recs) ==
  IF \E k \in 1..Len(recs) : IsOpen(recs[k])
  THEN (CHOOSE k \in 1..Len(recs) :
          IsOpen(recs[k]) /\ \A j \in 1..(k - 1) : ~IsOpen(recs[j])) - 1
  ELSE -1

\* records.filter(IsOpen), as the positions (1-based) of the kept objects:
\* filter builds a new array that holds the same objects.
Positions(recs) == [k \in 1..Len(recs) |-> k]

FilterUnfiltered(recs) == Positions(recs)

FilterOpen(recs) == SelectSeq(Positions(recs), LAMBDA k : IsOpen(recs[k]))

\* Math.round(((index + 1) / total) * 100) of StatusService.updateProgress.
Progress(index, total) ==
  IF total > 0 THEN (200 * (index + 1) + total) \div (2 * total) ELSE 0

\* Every list of 1..MaxItems rows an upload can produce.
UploadLists ==
  UNION {[1..n -> {Rec(st, "") : st \in UploadStatuses}] : n \in 1..MaxItems}

\* --------------------------------------------------- processarRegistro
\* What cancelarApolice can answer: success, or a failure with a message.
\* Its failures carry the text of the error caught, or this fixed text when
\* the portal did not confirm; the texts are never empty.
FailureMessages == {"Nao foi possivel confirmar o cancelamento", "Timeout 15000ms exceeded."}

Outcomes == {"ok"} \cup FailureMessages

\* { success, message } of AutomationResult; NoResult before the call returns
NoResult == [success |-> FALSE, message |-> ""]

\* No call of processarRegistro under observation.  calls counts the calls
\* of cancelarApolice, waits the 2 s backoffs begun.
FluxoIdle ==
  [phase |-> "idle", maxRetries |-> 0, outcomes |-> <<>>, attempt |-> 0,
   lastError |-> "null", result |-> NoResult, record |-> Rec("pendente", ""),
   calls |-> 0, waits |-> 0]

\* processarRegistro(page, record, statusService, n) is called for a record
\* marked processando; outcomes[k] is what the k-th call of cancelarApolice
\* will answer.
FluxoCall(n, outcomes) ==
  [phase |-> "call", maxRetries |-> n, outcomes |-> outcomes, attempt |-> 0,
   lastError |-> "null", result |-> NoResult, record |-> Rec("processando", ""),
   calls |-> 0, waits |-> 0]

\* ------------------------------------------------ StatusService.logs
\* entries is the array this.logs, newest entry first; an entry is known by
\* its id, which is the number of the addLog call that made it.  added
\* counts the calls of addLog, since is what added was at the last
\* initialize().
NoLogs == [entries |-> <<>>, added |-> 0, since |-> 0]

\* array.slice(0, n)
Slice0(array, n) == SubSeq(array, 1, IF n < Len(array) THEN n ELSE Len(array))

\* ------------------------------------------------ getActiveSession
\* CHECK(status IN ('running', 'completed', 'paused', 'stopped', 'error'))
SessionStatuses == {"running", "completed", "paused", "stopped", "error"}

\* new Date().toISOString() at instant t: the digits of the instant, most
\* significant first, in a fixed number of places (YYYY-MM-DDTHH:mm:ss.sssZ).
ToISOString(t) == <<t \div 10, t % 10>>

\* The order of two TEXT values in SQLite (BINARY collation): the first
\* place that differs decides, and a proper prefix comes first.
TextLess(a, b) ==
  \/ \E k \in 1..Len(a) :
       /\ k <= Len(b)
       /\ \A j \in 1..(k - 1) : a[j] = b[j]
       /\ a[k] < b[k]
  \/ /\ Len(a) < Len(b)
     /\ \A j \in 1..Len(a) : a[j] = b[j]

\* A row of execution_sessions as far as the query reads it, created by
\* createSession at instant t (started is not a column: it records t).
SessionRow(st, t) == [status |-> st, started |-> t, startDate |-> ToISOString(t)]

\* Every table of up to MaxSessions rows, by id.
SessionTables ==
  UNION {[1..n -> {SessionRow(st, t) : st \in SessionStatuses, t \in 0..MaxClock}] :
           n \in 0..MaxSessions}

\* No call of getActiveSession under observation; result 0 stands for null.
NoLookup == [phase |-> "idle", table |-> <<>>, result |-> 0]

\* WHERE status IN ('running', 'paused'): the ids of the rows selected
WhereActive(tbl) == {id \in 1..Len(tbl) : tbl[id].status \in {"running", "paused"}}

\* ------------------------------------------------------------- state
VARIABLES
  lists,            \* every PolicyRecord array built so far (upload, /api/retomar/:id)
  currentRecords,   \* server.ts currentRecords: index into lists, 0 for []
  automacaoService, \* server.ts automacaoService: index into svc, 0 for null
  svc,              \* the AutomacaoService instances and their processarRegistros call
  sessions,         \* table execution_sessions, by id
  items,            \* table processed_records, by sessionId then recordIndex + 1
  status,           \* StatusService.status
  stopping,         \* the instance an unfinished POST /api/parar is stopping, 0 if none
  hist,             \* SpecRun: where the run was when pause and stop were requested;
                    \* SpecFaults: whether a write of the loop has been rejected
                    \* and whether a listener of the status event has thrown
  fluxo,            \* SpecRetry only: one call of processarRegistro and its inputs
  logs,             \* SpecLogs only: StatusService.logs and the calls of addLog so far
  lookup            \* SpecLookup only: one call of getActiveSession and its table

vars == <<lists, currentRecords, automacaoService, svc, sessions, items,
          status, stopping, hist, fluxo, logs, lookup>>

\* StatusService.status after initialize(records)
StatusInit(total) ==
  [isProcessing |-> FALSE, isPaused |-> FALSE, currentIndex |-> 0,
   total |-> total, cancelados |-> 0, erros |-> 0, progress |-> 0]

\* No pause and no stop requested yet.  pauseAt is the index i of the item
\* in execution when a pause was requested that no resume request has
\* followed yet (-1: none); stopAt says where the loop was when stop was
\* first requested, stopPc at which await, and stopI is its i then.
\* pauses counts the pause requests accepted (SpecLive).
\* rejected says that a write awaited by the loop has been rejected, threw
\* that a listener of the status event has thrown in a call of
\* updateProgress made by the loop.
NoHist ==
  [pauseAt |-> -1, stopAt |-> "none", stopPc |-> "none", stopI |-> 0,
   rejected |-> FALSE, threw |-> FALSE, pauses |-> 0]

Init ==
  /\ lists = <<>>
  /\ currentRecords = 0
  /\ automacaoService = 0
  /\ svc = <<>>
  /\ sessions = <<>>
  /\ items = <<>>
  /\ status = StatusInit(0)
  /\ stopping = 0
  /\ hist = NoHist
  /\ fluxo = FluxoIdle
  /\ logs = NoLogs
  /\ lookup = NoLookup

\* ------------------------------------------------- DatabaseService
\* createSession: INSERT INTO execution_sessions ... VALUES (.., 'running', total, 0, 0, 0)
NewSession(total) ==
  [status |-> "running", totalRecords |-> total, processedRecords |-> 0,
   canceledRecords |-> 0, errorRecords |-> 0, ended |-> FALSE]

SaveRecordsButLast(tbl, sid, recs) ==
  IF Len(tbl[sid]) = 0
  THEN [tbl EXCEPT ![sid] = recs]
  ELSE [tbl EXCEPT ![sid] =
          [k \in 1..Len(tbl[sid]) |-> IF k < Len(recs) THEN recs[k] ELSE tbl[sid][k]]]

\* saveRecords: with no row of the session yet, INSERT one row per record;
\* otherwise UPDATE ... WHERE sessionId = ? AND recordIndex = i for every
\* i < records.length, which leaves rows at other indices as they are.
SaveRecords(tbl, sid, recs) ==
  IF Len(tbl[sid]) = 0
  THEN [tbl EXCEPT ![sid] = recs]
  ELSE [tbl EXCEPT ![sid] =
          [k \in 1..Len(tbl[sid]) |-> IF k <= Len(recs) THEN recs[k] ELSE tbl[sid][k]]]

\* updateSessionProgress(sessionId, processed, canceled, errors, status?);
\* st = "" stands for an omitted status.
UpdateSessionProgress(tbl, sid, p, c, e, st) ==
  [tbl EXCEPT ![sid] =
     [@ EXCEPT !.processedRecords = p, !.canceledRecords = c, !.errorRecords = e,
               !.status = IF st = "" THEN @ ELSE st]]

\* finishSession(sessionId, status): SET endDate = ?, status = ?
FinishSession(tbl, sid, st) ==
  [tbl EXCEPT ![sid] = [@ EXCEPT !.status = st, !.ended = TRUE]]

\* ---------------------------------------------------- StatusService
StStart(st) == [st EXCEPT !.isProcessing = TRUE, !.isPaused = FALSE]

StPause(st) == [st EXCEPT !.isPaused = TRUE]

StResume(st) == [st EXCEPT !.isPaused = FALSE]

StStop(st) == [st EXCEPT !.isProcessing = FALSE, !.isPaused = FALSE]

StUpdateProgress(st, index, c, e) ==
  [st EXCEPT !.currentIndex = index, !.cancelados = c, !.erros = e,
             !.progress = Progress(index, st.total)]

\* ------------------------------------------------- AutomacaoService
\* The fields of an instance (isRunning, sessionId, page: this.page and
\* this.browser are set and cleared together), the arguments and locals of
\* its one processarRegistros call (list and records: the array passed in,
\* as positions into the array it was filtered from; startIndex, i,
\* cancelados, erros; attempt, lastError and okPossible of the
\* processarRegistro call in progress; pc: the await the call is at), and a
\* record of what the run did (kind, resumeOf, began, established, attempts,
\* result), which no action reads.
NewSvc(kind, resumeOf, list, pos, startIndex, began, newId) ==
  [kind |-> kind, resumeOf |-> resumeOf, list |-> list, records |-> pos,
   startIndex |-> startIndex, began |-> began, newId |-> newId,
   isRunning |-> TRUE, sessionId |-> 0, page |-> "null",
   pc |-> "create", i |-> 0, cancelados |-> 0, erros |-> 0,
   attempt |-> 0, lastError |-> 0, okPossible |-> FALSE,
   established |-> FALSE, attempts |-> <<>>,
   result |-> "none"]

\* The contents of the array `records` of instance s, read from the heap L.
RunRecs(L, s) == [k \in 1..Len(s.records) |-> L[s.list][s.records[k]]]

\* The message of the attempt-th failure of the actor.
ErrMsg(attempt) ==
  CASE attempt = 0 -> "Erro desconhecido"
    [] attempt = 1 -> "falha 1"
    [] attempt = 2 -> "falha 2"
    [] OTHER -> "falha n"

\* --------------------------------------------------------- server.ts
\* POST /api/upload: currentRecords = records; statusService.initialize(records)
UploadOf(sheets) ==
  /\ lists = <<>>
  /\ \E recs \in sheets :
       /\ lists' = Append(lists, recs)
       /\ currentRecords' = Len(lists) + 1
       /\ status' = StatusInit(Len(recs))
  /\ UNCHANGED <<automacaoService, svc, sessions, items, stopping, hist, fluxo, logs, lookup>>

Upload == UploadOf(UploadLists)

\* POST /api/reprocessar: every record with status erro becomes pendente;
\* statusService.initialize(currentRecords)
Reprocessar ==
  /\ currentRecords # 0
  /\ lists' = [lists EXCEPT ![currentRecords] =
                 [k \in 1..Len(@) |->
                    IF @[k].status = "erro"
                    THEN Rec("pendente", "Aguardando reprocessamento") ELSE @[k]]]
  /\ status' = StatusInit(Len(lists[currentRecords]))
  /\ UNCHANGED <<currentRecords, automacaoService, svc, sessions, items, stopping, hist, fluxo, logs, lookup>>

\* automacaoService?.isRunningCheck()
ServiceRunning == automacaoService # 0 /\ svc[automacaoService].isRunning

\* new AutomacaoService(...) followed by processarRegistros(recordsToProcess,
\* fileName, startIndex) up to its first await: isRunning = true,
\* statusService.initialize / start / updateProgress(startIndex, 0, 0), and,
\* sessionId being null in a new instance, the call of createSession.
Begin(kind, resumeOf, L, list) ==
  LET all == L[list]
      pos == FilterOpen(all)
      found == FindIndex(all)
      startIndex == IF found >= 0 THEN found ELSE 0
      newId == Len(sessions) + 1
      began == [k \in 1..Len(all) |-> all[k].status]
      s == NewSvc(kind, resumeOf, list, pos, startIndex, began, newId)
  IN  /\ svc' = Append(svc, s)
      /\ automacaoService' = Len(svc) + 1
      /\ status' = StUpdateProgress(StStart(StatusInit(Len(pos))), startIndex, 0, 0)
      /\ sessions' = Append(sessions, NewSession(Len(pos)))
      /\ items' = SaveRecords(Append(items, <<>>), newId, RunRecs(L, s))

\* POST /api/executar.  The request is answered 400, and nothing changes,
\* with no spreadsheet loaded, with automacaoService running, or with no
\* record pendente or erro.  cap bounds the runs begun in one behaviour.
Start(cap) ==
  /\ currentRecords # 0
  /\ ~ServiceRunning
  /\ FilterOpen(lists[currentRecords]) # <<>>
  /\ Len(svc) < cap
  /\ Begin("start", 0, lists, currentRecords)
  /\ UNCHANGED <<lists, currentRecords, stopping, hist, fluxo, logs, lookup>>

Executar == Start(MaxRuns)

\* POST /api/retomar/:id.  The request is answered 400, and nothing changes,
\* with automacaoService running, for a session completed, or with no
\* record pendente or erro.  The records are parsed from the rows of the
\* session, so they are new objects; currentRecords = records.
ResumeAcceptable(id) ==
  /\ ~ServiceRunning
  /\ sessions[id].status # "completed"
  /\ FindIndex(items[id]) # -1

ResumeSession(id) ==
  /\ ResumeAcceptable(id)
  /\ Len(svc) < MaxRuns
  /\ lists' = Append(lists, items[id])
  /\ currentRecords' = Len(lists) + 1
  /\ Begin("resume", id, lists', Len(lists) + 1)
  /\ UNCHANGED <<stopping, hist, fluxo, logs, lookup>>

\* POST /api/pausar: with an instance at hand, AutomacaoService.pause, which
\* is StatusService.pause; answered 400 otherwise
DoPausar ==
  /\ automacaoService # 0
  /\ status' = StPause(status)
  /\ UNCHANGED <<lists, currentRecords, automacaoService, svc, sessions, items, stopping>>

\* POST /api/retomar: with an instance at hand, AutomacaoService.resume,
\* which is StatusService.resume; answered 400 otherwise
DoRetomar ==
  /\ automacaoService # 0
  /\ status' = StResume(status)
  /\ UNCHANGED <<lists, currentRecords, automacaoService, svc, sessions, items, stopping>>

\* POST /api/parar, with an instance at hand (answered 400 otherwise):
\* AutomacaoService.stop up to its first await: isRunning = false, then the
\* write that records the stop.  With sessionId still null and no page there
\* is no await at all, and the handler runs to its response.
DoStopBegin ==
  /\ automacaoService # 0
  /\ stopping = 0
  /\ LET r == automacaoService
         s == svc[r]
         t == [s EXCEPT !.isRunning = FALSE]
     IN  /\ svc' = [svc EXCEPT ![r] = t]
         /\ IF s.sessionId # 0
            THEN /\ sessions' =
                      IF status.isPaused
                      THEN UpdateSessionProgress(sessions, s.sessionId, 0, 0, 0, "paused")
                      ELSE FinishSession(sessions, s.sessionId, "stopped")
                 /\ stopping' = r
                 /\ UNCHANGED <<status, automacaoService>>
            ELSE /\ status' = StStop(status)
                 /\ automacaoService' = 0
                 /\ UNCHANGED <<sessions, stopping>>
  /\ UNCHANGED <<lists, currentRecords, items>>

\* The rest of AutomacaoService.stop and of POST /api/parar:
\* statusService.stop(); close() (page and browser closed, the fields set
\* to null); automacaoService = null.
StopEnd ==
  /\ stopping # 0
  /\ svc' = [svc EXCEPT ![stopping].page = "null"]
  /\ status' = StStop(status)
  /\ automacaoService' = 0
  /\ stopping' = 0
  /\ UNCHANGED <<lists, currentRecords, sessions, items, hist, fluxo, logs, lookup>>

\* ------------------------------------- AutomacaoService.processarRegistros
\* What a step of the loop leaves alone.
LoopFrame ==
  UNCHANGED <<currentRecords, automacaoService, stopping, hist, fluxo, logs, lookup>>

ThrowCompleted(r, s) ==
  /\ svc' = [svc EXCEPT ![r] = [s EXCEPT !.pc = "catch"]]
  /\ sessions' = FinishSession(sessions, s.sessionId, "completed")
  /\ UNCHANGED <<lists, items, status>>

\* catch (error): finishSession(sessionId, "error") is issued
Throw(r, s) ==
  /\ svc' = [svc EXCEPT ![r] = [s EXCEPT !.pc = "catch"]]
  /\ sessions' = FinishSession(sessions, s.sessionId, "error")
  /\ UNCHANGED <<lists, items, status>>

\* After the loop (its end or a break): finishSession(sessionId, "completed")
\* and saveRecords(sessionId, records)
Finish(r, s) ==
  /\ svc' = [svc EXCEPT ![r] = [s EXCEPT !.pc = "finish"]]
  /\ sessions' = FinishSession(sessions, s.sessionId, "completed")
  /\ items' = SaveRecords(items, s.sessionId, RunRecs(lists, s))
  /\ UNCHANGED <<lists, status>>

\* records[i].status = "processando"; updateProgress(i, ..); saveRecords and
\* updateSessionProgress(i, c, e)
Mark(r, s) ==
  /\ lists' = [lists EXCEPT ![s.list][s.records[s.i + 1]].status = "processando"]
  /\ status' = StUpdateProgress(status, s.i, s.cancelados, s.erros)
  /\ items' = SaveRecords(items, s.sessionId, RunRecs(lists', s))
  /\ sessions' = UpdateSessionProgress(sessions, s.sessionId, s.i,
                     s.cancelados, s.erros, "")
  /\ svc' = [svc EXCEPT ![r] = [s EXCEPT !.pc = "marked"]]

\* if (!this.isRunning) break; otherwise go on to mark records[i]
CheckStopThenMark(r, s) ==
  IF ~s.isRunning THEN Finish(r, s) ELSE Mark(r, s)

AfterItemSameIndex(r, s, L) ==
  /\ lists' = L
  /\ status' = StUpdateProgress(status, s.i + 1, s.cancelados, s.erros)
  /\ items' = SaveRecords(items, s.sessionId, RunRecs(L, s))
  /\ svc' = [svc EXCEPT ![r] =
               [s EXCEPT !.pc = "saved", !.attempt = 0,
                         !.lastError = 0, !.okPossible = FALSE]]
  /\ UNCHANGED sessions

\* With L the heap after the item: updateProgress(i + 1, ..), which
\* publishes the status, and then the call of saveRecords.  i stands for the
\* items done from here on (the loop's i++ comes after the next write).
AfterItem(r, s, L) ==
  /\ lists' = L
  /\ status' = StUpdateProgress(status, s.i + 1, s.cancelados, s.erros)
  /\ items' = SaveRecords(items, s.sessionId, RunRecs(L, s))
  /\ svc' = [svc EXCEPT ![r] =
               [s EXCEPT !.pc = "saved", !.i = s.i + 1, !.attempt = 0,
                         !.lastError = 0, !.okPossible = FALSE]]
  /\ UNCHANGED sessions

ProgressSavedWritesIndex(r) ==
  /\ svc[r].pc = "saved"
  /\ LET s == svc[r]
     IN  sessions' = UpdateSessionProgress(sessions, s.sessionId, s.i - 1,
                        s.cancelados, s.erros, "")
  /\ svc' = [svc EXCEPT ![r].pc = "top"]
  /\ UNCHANGED <<lists, items, status>>
  /\ LoopFrame

\* saveRecords has returned: updateSessionProgress(i + 1, c, e) is called,
\* and the head of the loop follows
ProgressSaved(r) ==
  /\ svc[r].pc = "saved"
  /\ LET s == svc[r]
     IN  sessions' = UpdateSessionProgress(sessions, s.sessionId, s.i,
                        s.cancelados, s.erros, "")
  /\ svc' = [svc EXCEPT ![r].pc = "top"]
  /\ UNCHANGED <<lists, items, status>>
  /\ LoopFrame

\* saveRecords has returned and the promise of updateSessionProgress(i + 1,
\* c, e) is rejected: the session row keeps its counters, and the await
\* throws inside the try block, so the catch block follows.
ProgressRejected(r) ==
  /\ svc[r].pc = "saved"
  /\ Throw(r, svc[r])
  /\ hist' = [hist EXCEPT !.rejected = TRUE]
  /\ UNCHANGED <<currentRecords, automacaoService, stopping, fluxo, logs, lookup>>

\* The loop goes on to records[i] as in Top and Resumed: records[i].status =
\* "processando", then updateProgress(i, ..) sets the fields of the status
\* and calls emit("status", ..), which runs the listeners of the sockets one
\* after the other in the caller; the ws.send of one of them throws.  The
\* exception leaves updateProgress inside the try block: saveRecords is not
\* reached and the catch block follows.
ListenerThrows(r) ==
  /\ svc[r].pc \in {"top", "resumed"}
  /\ LET s == svc[r]
     IN  /\ s.i < Len(s.records)
         /\ s.pc = "top" => ~status.isPaused
         /\ s.isRunning
         /\ lists' = [lists EXCEPT ![s.list][s.records[s.i + 1]].status = "processando"]
         /\ status' = StUpdateProgress(status, s.i, s.cancelados, s.erros)
         /\ svc' = [svc EXCEPT ![r] = [s EXCEPT !.pc = "catch"]]
         /\ sessions' = FinishSession(sessions, s.sessionId, "error")
         /\ UNCHANGED items
  /\ hist' = [hist EXCEPT !.threw = TRUE]
  /\ UNCHANGED <<currentRecords, automacaoService, stopping, fluxo, logs, lookup>>

\* createSession has returned: sessionId is set; initialize() calls initBrowser
Created(r) ==
  /\ svc[r].pc = "create"
  /\ svc' = [svc EXCEPT ![r] =
               [@ EXCEPT !.sessionId = svc[r].newId, !.pc = "initBrowser"]]
  /\ UNCHANGED <<lists, sessions, items, status>>
  /\ LoopFrame

\* initBrowser has returned, and this.browser and this.page are set and
\* executeLogin is called, or it has thrown (chromium.launch failed).
BrowserUp(r) ==
  /\ svc[r].pc = "initBrowser"
  /\ \E ok \in {TRUE, FALSE} :
       IF ok
       THEN /\ svc' = [svc EXCEPT ![r] = [@ EXCEPT !.page = "open", !.pc = "login"]]
            /\ UNCHANGED <<lists, sessions, items, status>>
       ELSE Throw(r, svc[r])
  /\ LoopFrame

\* The number of the first n records of the run with the given status
CountBefore(L, s, n, st) ==
  Cardinality({k \in 1..n : L[s.list][s.records[k]].status = st})

\* executeLogin has returned.  A failed login throws; so does the use of a
\* page that stop() has closed meanwhile.  On success the counters are
\* rebuilt from records[0 .. startIndex - 1], which throws when the array
\* is shorter than startIndex, and the loop is entered with i = startIndex.
LoginDone(r) ==
  /\ svc[r].pc = "login"
  /\ \E ok \in {TRUE, FALSE} :
       LET s == svc[r]
       IN  IF ~ok \/ s.page = "null" \/ s.startIndex > Len(s.records)
           THEN Throw(r, [s EXCEPT !.established = ok /\ s.page # "null"])
           ELSE /\ svc' = [svc EXCEPT ![r] =
                             [s EXCEPT !.established = TRUE, !.pc = "top",
                                !.i = s.startIndex,
                                !.cancelados =
                                   CountBefore(lists, s, s.startIndex, "cancelado"),
                                !.erros = CountBefore(lists, s, s.startIndex, "erro")]]
                /\ UNCHANGED <<lists, sessions, items, status>>
  /\ LoopFrame

\* The head of the loop: i < records.length, then the pause check, which
\* issues updateSessionProgress(i, .., "paused") and saveRecords, then the
\* stop check.
Top(r) ==
  /\ svc[r].pc = "top"
  /\ LET s == svc[r]
     IN  IF s.i >= Len(s.records)
         THEN Finish(r, s)
         ELSE IF status.isPaused
              THEN /\ sessions' = UpdateSessionProgress(sessions, s.sessionId, s.i,
                                     s.cancelados, s.erros, "paused")
                   /\ items' = SaveRecords(items, s.sessionId, RunRecs(lists, s))
                   /\ svc' = [svc EXCEPT ![r].pc = "pause_wait"]
                   /\ UNCHANGED <<lists, status>>
              ELSE CheckStopThenMark(r, s)
  /\ LoopFrame

PauseWakeIgnoresStop(r) ==
  /\ svc[r].pc = "pause_wait"
  /\ ~(status.isPaused /\ svc[r].isRunning)
  /\ LET s == svc[r]
     IN  /\ sessions' = UpdateSessionProgress(sessions, s.sessionId, s.i,
                            s.cancelados, s.erros, "running")
         /\ svc' = [svc EXCEPT ![r].pc = "resumed"]
         /\ UNCHANGED <<lists, items, status>>
  /\ LoopFrame

\* while (isPaused() && this.isRunning) sleep 500 ms: the loop goes on at a
\* poll that finds the condition false; a stop breaks, a resume issues
\* updateSessionProgress(i, .., "running").
PauseWake(r) ==
  /\ svc[r].pc = "pause_wait"
  /\ ~(status.isPaused /\ svc[r].isRunning)
  /\ LET s == svc[r]
     IN  IF ~s.isRunning
         THEN Finish(r, s)
         ELSE /\ sessions' = UpdateSessionProgress(sessions, s.sessionId, s.i,
                                s.cancelados, s.erros, "running")
              /\ svc' = [svc EXCEPT ![r].pc = "resumed"]
              /\ UNCHANGED <<lists, items, status>>
  /\ LoopFrame

\* After the write of "running": the stop check, then the item is marked
Resumed(r) ==
  /\ svc[r].pc = "resumed"
  /\ CheckStopThenMark(r, svc[r])
  /\ LoopFrame

\* The result of processarRegistro is stored in records[i] and counted
ItemResult(r, s, success, message) ==
  LET p == s.records[s.i + 1]
      L == [lists EXCEPT ![s.list][p] =
              Rec(IF success THEN "cancelado" ELSE "erro", message)]
      t == IF success THEN [s EXCEPT !.cancelados = @ + 1]
                      ELSE [s EXCEPT !.erros = @ + 1]
  IN  AfterItem(r, t, L)

\* if (this.page): processarRegistro(this.page, record, ..) runs to the call
\* of cancelarApolice of its first attempt, or, with maxRetries < 1, returns
\* at once the failure "Erro desconhecido".  With this.page null the item
\* is skipped and keeps the status processando.
Invoke(r) ==
  /\ svc[r].pc = "marked"
  /\ LET s == svc[r]
     IN  IF s.page = "null"
         THEN AfterItem(r, s, lists)
         ELSE IF 1 <= maxRetries
              THEN /\ svc' = [svc EXCEPT ![r] =
                                [s EXCEPT !.pc = "attempt", !.attempt = 1,
                                          !.okPossible = TRUE,
                                          !.attempts = Append(@, s.records[s.i + 1])]]
                   /\ UNCHANGED <<lists, sessions, items, status>>
              ELSE ItemResult(r, s, FALSE, ErrMsg(0))
  /\ LoopFrame

\* cancelarApolice has returned or thrown.  It can succeed only on a page
\* that was open when the attempt began.  A failure before the last attempt
\* starts the 2 s backoff; the last one is the result.
AttemptDone(r) ==
  /\ svc[r].pc = "attempt"
  /\ \E ok \in {TRUE, FALSE} :
       LET s == svc[r]
       IN  /\ ok => s.okPossible
           /\ IF ok
              THEN ItemResult(r, s, TRUE, "Cancelamento realizado com sucesso")
              ELSE IF s.attempt < maxRetries
                   THEN /\ svc' = [svc EXCEPT ![r] =
                                     [s EXCEPT !.pc = "backoff", !.lastError = s.attempt]]
                        /\ UNCHANGED <<lists, sessions, items, status>>
                   ELSE ItemResult(r, s, FALSE, ErrMsg(s.attempt))
  /\ LoopFrame

BackoffSameAttempt(r) ==
  /\ svc[r].pc = "backoff"
  /\ svc' = [svc EXCEPT ![r] =
               [@ EXCEPT !.pc = "attempt",
                         !.okPossible = (svc[r].page = "open")]]
  /\ UNCHANGED <<lists, sessions, items, status>>
  /\ LoopFrame

\* The backoff is over: the next attempt calls cancelarApolice with the same
\* page object, which stop() may have closed.
Backoff(r) ==
  /\ svc[r].pc = "backoff"
  /\ svc' = [svc EXCEPT ![r] =
               [@ EXCEPT !.pc = "attempt", !.attempt = @ + 1,
                         !.okPossible = (svc[r].page = "open")]]
  /\ UNCHANGED <<lists, sessions, items, status>>
  /\ LoopFrame

\* finally { this.isRunning = false; this.statusService.stop(); }
Finally(r, how) ==
  /\ svc' = [svc EXCEPT ![r] =
               [@ EXCEPT !.pc = "ended", !.isRunning = FALSE, !.result = how]]
  /\ status' = StStop(status)
  /\ UNCHANGED <<lists, sessions, items>>

\* The last saveRecords has returned: addLog twice, then finally
FinDone(r) ==
  /\ svc[r].pc = "finish"
  /\ Finally(r, "returned")
  /\ LoopFrame

\* finishSession("error") has settled: addLog, throw error, then finally
CatchDone(r) ==
  /\ svc[r].pc = "catch"
  /\ Finally(r, "thrown")
  /\ LoopFrame

\* ------------------------------------ processarRegistro, one call alone
\* What a step of processarRegistro leaves alone.
FluxoFrame ==
  UNCHANGED <<lists, currentRecords, automacaoService, svc, sessions, items,
              status, stopping, hist, logs, lookup>>

\* return { success: false, message: lastError?.message || "Erro desconhecido" }
FluxoExhausted(lastError) ==
  [success |-> FALSE,
   message |-> IF lastError = "null" THEN "Erro desconhecido" ELSE lastError]

FluxoEnterAfterBackoff ==
  /\ fluxo.phase = "call"
  /\ fluxo' = IF 1 <= fluxo.maxRetries
               THEN [fluxo EXCEPT !.phase = "attempt", !.attempt = 1,
                                  !.calls = 1, !.waits = 1]
               ELSE [fluxo EXCEPT !.phase = "returned",
                                  !.result = FluxoExhausted(fluxo.lastError)]
  /\ FluxoFrame

\* let lastError = null; for (let attempt = 1; attempt <= maxRetries; ...):
\* the first attempt calls cancelarApolice, or the loop is not entered.
FluxoEnter ==
  /\ fluxo.phase = "call"
  /\ fluxo' = IF 1 <= fluxo.maxRetries
               THEN [fluxo EXCEPT !.phase = "attempt", !.attempt = 1, !.calls = 1]
               ELSE [fluxo EXCEPT !.phase = "returned",
                                  !.result = FluxoExhausted(fluxo.lastError)]
  /\ FluxoFrame

FluxoAttemptDoneKeepsFirst ==
  /\ fluxo.phase = "attempt"
  /\ LET out == fluxo.outcomes[fluxo.attempt]
          err == IF fluxo.lastError = "null" THEN out ELSE fluxo.lastError
     IN  fluxo' =
           IF out = "ok"
           THEN [fluxo EXCEPT !.phase = "returned",
                   !.result = [success |-> TRUE,
                               message |-> "Cancelamento realizado com sucesso"]]
           ELSE IF fluxo.attempt < fluxo.maxRetries
                THEN [fluxo EXCEPT !.phase = "backoff", !.lastError = err,
                        !.waits = @ + 1]
                ELSE [fluxo EXCEPT !.phase = "returned", !.lastError = err,
                        !.attempt = @ + 1, !.result = FluxoExhausted(err)]
  /\ FluxoFrame

\* cancelarApolice has answered.  A success is returned as it is; a failure
\* is thrown and caught, and becomes lastError; before the last attempt the
\* 2 s backoff follows, after it the loop ends and the failure is returned.
FluxoAttemptDone ==
  /\ fluxo.phase = "attempt"
  /\ LET out == fluxo.outcomes[fluxo.attempt]
     IN  fluxo' =
           IF out = "ok"
           THEN [fluxo EXCEPT !.phase = "returned",
                   !.result = [success |-> TRUE,
                               message |-> "Cancelamento realizado com sucesso"]]
           ELSE IF fluxo.attempt < fluxo.maxRetries
                THEN [fluxo EXCEPT !.phase = "backoff", !.lastError = out,
                        !.waits = @ + 1]
                ELSE [fluxo EXCEPT !.phase = "returned", !.lastError = out,
                        !.attempt = @ + 1, !.result = FluxoExhausted(out)]
  /\ FluxoFrame

\* The backoff is over: attempt++ and the next call of cancelarApolice
FluxoBackoff ==
  /\ fluxo.phase = "backoff"
  /\ fluxo' = [fluxo EXCEPT !.phase = "attempt", !.attempt = @ + 1,
                             !.calls = @ + 1]
  /\ FluxoFrame

\* processarRegistros stores the result: records[i].status is cancelado or
\* erro, records[i].observacao = result.message.
FluxoStore ==
  /\ fluxo.phase = "returned"
  /\ fluxo' = [fluxo EXCEPT !.phase = "stored",
                 !.record = Rec(IF fluxo.result.success THEN "cancelado" ELSE "erro",
                                fluxo.result.message)]
  /\ FluxoFrame

\* ------------------------------------------------------- specification
Pausar == DoPausar /\ UNCHANGED <<hist, fluxo, logs, lookup>>

Retomar == DoRetomar /\ UNCHANGED <<hist, fluxo, logs, lookup>>

StopBegin == DoStopBegin /\ UNCHANGED <<hist, fluxo, logs, lookup>>

\* Two runs under every command but POST /api/reprocessar.
Next ==
  \/ Upload
  \/ Executar
  \/ \E id \in 1..Len(sessions) : ResumeSession(id)
  \/ Pausar
  \/ Retomar
  \/ StopBegin
  \/ StopEnd
  \/ \E r \in 1..Len(svc) : Created(r)
  \/ \E r \in 1..Len(svc) : BrowserUp(r)
  \/ \E r \in 1..Len(svc) : LoginDone(r)
  \/ \E r \in 1..Len(svc) : Top(r)
  \/ \E r \in 1..Len(svc) : PauseWake(r)
  \/ \E r \in 1..Len(svc) : Resumed(r)
  \/ \E r \in 1..Len(svc) : Invoke(r)
  \/ \E r \in 1..Len(svc) : AttemptDone(r)
  \/ \E r \in 1..Len(svc) : Backoff(r)
  \/ \E r \in 1..Len(svc) : ProgressSaved(r)
  \/ \E r \in 1..Len(svc) : FinDone(r)
  \/ \E r \in 1..Len(svc) : CatchDone(r)

Spec == Init /\ [][Next]_vars

\* One run (POST /api/executar once, no /api/retomar/:id) under every
\* command, POST /api/reprocessar included, with hist kept.
Executing(s) == s.pc \in {"marked", "attempt", "backoff"}

BetweenItems(s) == s.pc \in {"saved", "top", "pause_wait", "resumed"}

ExecutarOnce == svc = <<>> /\ Executar

PausarRun ==
  /\ DoPausar
  /\ hist' = IF hist.pauseAt = -1 /\ svc # <<>> /\ Executing(svc[1])
             THEN [hist EXCEPT !.pauseAt = svc[1].i] ELSE hist
  /\ UNCHANGED <<fluxo, logs, lookup>>

RetomarRun ==
  /\ DoRetomar
  /\ hist' = [hist EXCEPT !.pauseAt = -1]
  /\ UNCHANGED <<fluxo, logs, lookup>>

StopBeginRun ==
  /\ DoStopBegin
  /\ hist' = IF hist.stopAt # "none" THEN hist
             ELSE [hist EXCEPT !.stopI = svc[1].i, !.stopPc = svc[1].pc,
                     !.stopAt = IF BetweenItems(svc[1]) THEN "between"
                                ELSE IF Executing(svc[1]) THEN "executing"
                                ELSE "outside"]
  /\ UNCHANGED <<fluxo, logs, lookup>>

NextRun ==
  \/ Upload
  \/ Reprocessar
  \/ ExecutarOnce
  \/ PausarRun
  \/ RetomarRun
  \/ StopBeginRun
  \/ StopEnd
  \/ \E r \in 1..Len(svc) : Created(r)
  \/ \E r \in 1..Len(svc) : BrowserUp(r)
  \/ \E r \in 1..Len(svc) : LoginDone(r)
  \/ \E r \in 1..Len(svc) : Top(r)
  \/ \E r \in 1..Len(svc) : PauseWake(r)
  \/ \E r \in 1..Len(svc) : Resumed(r)
  \/ \E r \in 1..Len(svc) : Invoke(r)
  \/ \E r \in 1..Len(svc) : AttemptDone(r)
  \/ \E r \in 1..Len(svc) : Backoff(r)
  \/ \E r \in 1..Len(svc) : ProgressSaved(r)
  \/ \E r \in 1..Len(svc) : FinDone(r)
  \/ \E r \in 1..Len(svc) : CatchDone(r)

SpecRun == Init /\ [][NextRun]_vars

\* One run as in SpecRun, with what the run needs to end: every await of
\* processarRegistros settles, the 500 ms poll of the pause wait goes on,
\* a run waiting in a pause gets POST /api/retomar or POST /api/parar, and
\* the pause requests are finitely many.
PausarLive ==
  /\ hist.pauses < MaxPauses
  /\ DoPausar
  /\ hist' = [hist EXCEPT
               !.pauses = @ + 1,
               !.pauseAt = IF @ = -1 /\ svc # <<>> /\ Executing(svc[1])
                           THEN svc[1].i ELSE @]
  /\ UNCHANGED <<fluxo, logs, lookup>>

\* A step of processarRegistros: the await the call is at has settled, or
\* the poll of the pause wait has found its condition false.
LoopStep(r) ==
  \/ Created(r)
  \/ BrowserUp(r)
  \/ LoginDone(r)
  \/ Top(r)
  \/ PauseWake(r)
  \/ Resumed(r)
  \/ Invoke(r)
  \/ AttemptDone(r)
  \/ Backoff(r)
  \/ ProgressSaved(r)
  \/ FinDone(r)
  \/ CatchDone(r)

\* The run waits in while (isPaused() && this.isRunning)
WaitingInPause ==
  /\ svc # <<>>
  /\ svc[1].pc = "pause_wait"
  /\ status.isPaused
  /\ svc[1].isRunning

\* POST /api/retomar or POST /api/parar for a run that waits in a pause
ResumeOrStop == WaitingInPause /\ (RetomarRun \/ StopBeginRun)

NextLive ==
  \/ Upload
  \/ Reprocessar
  \/ ExecutarOnce
  \/ PausarLive
  \/ RetomarRun
  \/ StopBeginRun
  \/ StopEnd
  \/ \E r \in 1..Len(svc) : LoopStep(r)

SpecLive ==
  /\ Init
  /\ [][NextLive]_vars
  /\ WF_vars(\E r \in 1..Len(svc) : LoopStep(r))
  /\ WF_vars(ResumeOrStop)

\* Up to MaxStarts runs under POST /api/executar and POST /api/parar alone.
\* The spreadsheets of SpecStarts: short, and every row pendente.
UploadStarts ==
  UploadOf({recs \in UploadLists :
              /\ Len(recs) <= MaxItemsStarts
              /\ \A k \in 1..Len(recs) : recs[k].status = "pendente"})

ExecutarStarts == Start(MaxStarts)

NextStarts ==
  \/ UploadStarts
  \/ ExecutarStarts
  \/ StopBegin
  \/ StopEnd
  \/ \E r \in 1..Len(svc) : Created(r)
  \/ \E r \in 1..Len(svc) : BrowserUp(r)
  \/ \E r \in 1..Len(svc) : LoginDone(r)
  \/ \E r \in 1..Len(svc) : Top(r)
  \/ \E r \in 1..Len(svc) : Invoke(r)
  \/ \E r \in 1..Len(svc) : AttemptDone(r)
  \/ \E r \in 1..Len(svc) : Backoff(r)
  \/ \E r \in 1..Len(svc) : ProgressSaved(r)
  \/ \E r \in 1..Len(svc) : FinDone(r)
  \/ \E r \in 1..Len(svc) : CatchDone(r)

SpecStarts == Init /\ [][NextStarts]_vars

\* One run without pause and stop, in which the write of the session row
\* after an item can be rejected and a listener of the status event can
\* throw.
NextFaults ==
  \/ Upload
  \/ ExecutarOnce
  \/ \E r \in 1..Len(svc) : Created(r)
  \/ \E r \in 1..Len(svc) : BrowserUp(r)
  \/ \E r \in 1..Len(svc) : LoginDone(r)
  \/ \E r \in 1..Len(svc) : Top(r)
  \/ \E r \in 1..Len(svc) : Invoke(r)
  \/ \E r \in 1..Len(svc) : AttemptDone(r)
  \/ \E r \in 1..Len(svc) : Backoff(r)
  \/ \E r \in 1..Len(svc) : ProgressSaved(r)
  \/ \E r \in 1..Len(svc) : ProgressRejected(r)
  \/ \E r \in 1..Len(svc) : ListenerThrows(r)
  \/ \E r \in 1..Len(svc) : FinDone(r)
  \/ \E r \in 1..Len(svc) : CatchDone(r)

SpecFaults == Init /\ [][NextFaults]_vars

\* What a step of the log buffer leaves alone.
LogsFrame ==
  UNCHANGED <<lists, currentRecords, automacaoService, svc, sessions, items,
              status, stopping, hist, fluxo, lookup>>

AddLogDropsNewest ==
  /\ logs.added < MaxLogs
  /\ LET log == logs.added + 1
         unshifted == <<log>> \o logs.entries
     IN  logs' = [logs EXCEPT !.added = log,
                    !.entries = IF Len(unshifted) > LogCapacity
                                THEN SubSeq(unshifted, 2, Len(unshifted))
                                ELSE unshifted]
  /\ LogsFrame

\* StatusService.addLog: this.logs.unshift(log); if (this.logs.length > 100)
\* this.logs = this.logs.slice(0, 100)
AddLog ==
  /\ logs.added < MaxLogs
  /\ LET log == logs.added + 1
         unshifted == <<log>> \o logs.entries
     IN  logs' = [logs EXCEPT !.added = log,
                    !.entries = IF Len(unshifted) > LogCapacity
                                THEN Slice0(unshifted, LogCapacity) ELSE unshifted]
  /\ LogsFrame

\* StatusService.initialize: this.logs = []
InitializeLogs ==
  /\ logs.entries # <<>>
  /\ logs' = [logs EXCEPT !.entries = <<>>, !.since = logs.added]
  /\ LogsFrame

\* StatusService.getLogs(): a copy of this.logs
GetLogs == logs.entries

\* The log buffer alone, under addLog and initialize.
NextLogs ==
  \/ AddLog
  \/ InitializeLogs

SpecLogs == Init /\ [][NextLogs]_vars

\* What a call of getActiveSession leaves alone.
LookupFrame ==
  UNCHANGED <<lists, currentRecords, automacaoService, svc, sessions, items,
              status, stopping, hist, fluxo, logs>>

GetActiveSessionAscending ==
  /\ lookup.phase = "call"
  /\ LET tbl == lookup.table
         rows == WhereActive(tbl)
         first == {id \in rows :
                     \A j \in rows : ~TextLess(tbl[j].startDate, tbl[id].startDate)}
     IN  IF rows = {}
         THEN lookup' = [lookup EXCEPT !.phase = "returned", !.result = 0]
         ELSE \E id \in first :
                lookup' = [lookup EXCEPT !.phase = "returned", !.result = id]
  /\ LookupFrame

\* DatabaseService.getActiveSession: SELECT * FROM execution_sessions WHERE
\* status IN ('running', 'paused') ORDER BY startDate DESC LIMIT 1; return
\* session || null.  Among rows with equal startDate the first of the order
\* is any one of them.
GetActiveSession ==
  /\ lookup.phase = "call"
  /\ LET tbl == lookup.table
         rows == WhereActive(tbl)
         first == {id \in rows :
                     \A j \in rows : ~TextLess(tbl[id].startDate, tbl[j].startDate)}
     IN  IF rows = {}
         THEN lookup' = [lookup EXCEPT !.phase = "returned", !.result = 0]
         ELSE \E id \in first :
                lookup' = [lookup EXCEPT !.phase = "returned", !.result = id]
  /\ LookupFrame

\* One call of getActiveSession, for every table of up to MaxSessions rows.
InitLookup ==
  /\ lists = <<>>
  /\ currentRecords = 0
  /\ automacaoService = 0
  /\ svc = <<>>
  /\ sessions = <<>>
  /\ items = <<>>
  /\ status = StatusInit(0)
  /\ stopping = 0
  /\ hist = NoHist
  /\ fluxo = FluxoIdle
  /\ logs = NoLogs
  /\ \E tbl \in SessionTables :
       lookup = [phase |-> "call", table |-> tbl, result |-> 0]

NextLookup == GetActiveSession

SpecLookup == InitLookup /\ [][NextLookup]_vars

\* saveRecords alone: one session, created for an array of records, and the
\* calls saveRecords(sessionId, records) that the loop makes for it while
\* the statuses and notes of the records change.  The array is the filter
\* of pendente and erro records the run was begun with, and it keeps its
\* length: nothing in the program adds or removes a record.
RecordNotes == {"", "Cancelamento realizado com sucesso"}

InitSave ==
  /\ \E n \in 1..MaxItems :
       \E recs \in [1..n -> {Rec(st, note) : st \in {"pendente", "erro"},
                                              note \in RecordNotes}] :
         /\ lists = <<recs>>
         /\ sessions = <<NewSession(n)>>
  /\ items = <<(<<>>)>>
  /\ currentRecords = 1
  /\ automacaoService = 0
  /\ svc = <<>>
  /\ status = StatusInit(0)
  /\ stopping = 0
  /\ hist = NoHist
  /\ fluxo = FluxoIdle
  /\ logs = NoLogs
  /\ lookup = NoLookup

SaveFrame ==
  UNCHANGED <<currentRecords, automacaoService, svc, sessions, status,
              stopping, hist, fluxo, logs, lookup>>

\* await this.databaseService.saveRecords(this.sessionId, records)
SaveCall ==
  /\ items' = SaveRecords(items, 1, lists[1])
  /\ UNCHANGED lists
  /\ SaveFrame

\* records[i].status = ..; records[i].observacao = ..
SetRecord ==
  /\ items[1] # <<>>
  /\ \E k \in 1..Len(lists[1]) : \E st \in Statuses : \E note \in RecordNotes :
       lists' = [lists EXCEPT ![1][k] = Rec(st, note)]
  /\ UNCHANGED items
  /\ SaveFrame

NextSave ==
  \/ SaveCall
  \/ SetRecord

SpecSave == InitSave /\ [][NextSave]_vars

\* One call of processarRegistro, for every maxRetries in 0..MaxAttempts
\* and every sequence of answers of cancelarApolice.
InitRetry ==
  /\ lists = <<>>
  /\ currentRecords = 0
  /\ automacaoService = 0
  /\ svc = <<>>
  /\ sessions = <<>>
  /\ items = <<>>
  /\ status = StatusInit(0)
  /\ stopping = 0
  /\ hist = NoHist
  /\ logs = NoLogs
  /\ lookup = NoLookup
  /\ \E n \in 0..MaxAttempts :
       \E outcomes \in [1..n -> Outcomes] : fluxo = FluxoCall(n, outcomes)

NextRetry ==
  \/ FluxoEnter
  \/ FluxoAttemptDone
  \/ FluxoBackoff
  \/ FluxoStore

SpecRetry == InitRetry /\ [][NextRetry]_vars


\* --------------------------------------------------------------- claims
Runs == 1..Len(svc)

\* The position (1-based) of the first status pendente or erro in a list of
\* statuses, 0 if there is none
FirstOpen(sts) ==
  IF \E k \in 1..Len(sts) : sts[k] \in {"pendente", "erro"}
  THEN CHOOSE k \in 1..Len(sts) :
         /\ sts[k] \in {"pendente", "erro"}
         /\ \A j \in 1..(k - 1) : sts[j] \notin {"pendente", "erro"}
  ELSE 0

\* C1: the first item a run begun by POST /api/retomar/:id hands to the actor
\* is the first item, in position order, that the session's persisted list
\* held as pendente or erro when the run began.
C1_ResumeBeginsAtFirstOpen ==
  \A r \in Runs :
    (svc[r].kind = "resume" /\ svc[r].attempts # <<>>)
      => svc[r].attempts[1] = FirstOpen(svc[r].began)


\* The positions of the list a run began with that were pendente or erro then
OpenAtBegin(s) == {k \in 1..Len(s.began) : s.began[k] \in {"pendente", "erro"}}

\* The positions a run has handed to the actor
Attempted(s) == {s.attempts[k] : k \in 1..Len(s.attempts)}

\* C2: a run in which the login succeeded and no stop was requested has, when
\* it ends, handed to the actor every item that was pendente or erro when it
\* began, and each of them is then cancelado or erro.
C2_EveryOpenItemAttempted ==
  \A r \in Runs :
    (svc[r].pc = "ended" /\ svc[r].established /\ hist.stopAt = "none")
      => \A k \in OpenAtBegin(svc[r]) :
           /\ k \in Attempted(svc[r])
           /\ lists[svc[r].list][k].status \in {"cancelado", "erro"}

\* C3: no run hands to the actor an item that was cancelado when the run began.
C3_DoneNeverInvoked ==
  \A r \in Runs :
    \A k \in Attempted(svc[r]) : svc[r].began[k] # "cancelado"

\* A run that began with an item cancelado in its list has handed another
\* item to the actor.
C3_Witness ==
  \E r \in Runs :
    /\ \E k \in 1..Len(svc[r].began) : svc[r].began[k] = "cancelado"
    /\ svc[r].attempts # <<>>

\* C4: every session row has processedRecords = canceledRecords + errorRecords.
C4_ProcessedIsSum ==
  \A sid \in 1..Len(sessions) :
    sessions[sid].processedRecords =
      sessions[sid].canceledRecords + sessions[sid].errorRecords

C6_StoppedBetweenItems ==
  \A r \in Runs :
    (/\ svc[r].pc = "ended"
     /\ hist.stopAt = "between"
     /\ hist.stopI > svc[r].startIndex
     /\ hist.stopI < Len(svc[r].records))
      => /\ sessions[svc[r].sessionId].status = "stopped"
         /\ \A k \in (hist.stopI + 1)..Len(svc[r].records) :
              items[svc[r].sessionId][k].status = "pendente"

\* The loop of run r has been left by the break of a stop, with items of its
\* session still persisted as pendente.
StoppedWithPending(r) ==
  /\ svc[r].pc = "ended"
  /\ svc[r].result = "returned"
  /\ svc[r].i < Len(svc[r].records)
  /\ \E k \in 1..Len(items[svc[r].sessionId]) :
       items[svc[r].sessionId][k].status = "pendente"

\* C7: after a run was stopped with items still pendente, POST
\* /api/retomar/:id for its session is accepted whenever no automation is
\* running, and a run resumed from it begins at the first item left pendente.
C7_StoppedSessionResumable ==
  \A r \in Runs :
    StoppedWithPending(r)
      => /\ ~ServiceRunning => ResumeAcceptable(svc[r].sessionId)
         /\ \A q \in Runs :
              (svc[q].resumeOf = svc[r].sessionId /\ svc[q].attempts # <<>>)
                => svc[q].attempts[1] = FirstOpen(svc[q].began)

\* C8: a session row with status completed has every item cancelado or erro.
C8_CompletedMeansAllTerminal ==
  \A sid \in 1..Len(sessions) :
    sessions[sid].status = "completed"
      => \A k \in 1..Len(items[sid]) : items[sid][k].status \in {"cancelado", "erro"}

\* Item i of the run has been marked processando (or is past that).
MarkedItem(s, i) == s.i > i \/ (s.i = i /\ Executing(s))

\* C9: while a pause requested during the execution of item i has not been
\* followed by a resume request, item i + 1 is not marked processando.
C9_PauseHoldsNextItem ==
  hist.pauseAt >= 0 => ~MarkedItem(svc[1], hist.pauseAt + 1)

\* C10: when POST /api/pausar returns for a run whose session row is
\* running, the row has status paused.
C10_PausePersistedOnReturn ==
  [][(/\ ~status.isPaused
      /\ status'.isPaused
      /\ automacaoService # 0
      /\ svc[automacaoService].pc # "ended"
      /\ svc[automacaoService].sessionId # 0
      /\ sessions[svc[automacaoService].sessionId].status = "running")
       => sessions'[svc[automacaoService].sessionId].status = "paused"]_vars

\* The call of processarRegistro under observation has returned and its result
\* is stored in the record.
FluxoDone == fluxo.phase = "stored" /\ fluxo.maxRetries >= 1

\* C11: with maxRetries = N >= 1, processarRegistro returns success, and the
\* record ends cancelado, if one of the first N attempts succeeds; otherwise
\* it returns failure with the message of the N-th attempt, and the record
\* ends erro with that message as its observacao.
C11_RetryResult ==
  FluxoDone =>
    IF \E k \in 1..fluxo.maxRetries : fluxo.outcomes[k] = "ok"
    THEN fluxo.result.success /\ fluxo.record.status = "cancelado"
    ELSE /\ ~fluxo.result.success
         /\ fluxo.result.message = fluxo.outcomes[fluxo.maxRetries]
         /\ fluxo.record = Rec("erro", fluxo.outcomes[fluxo.maxRetries])

\* With maxRetries = 2, two attempts have failed with different messages and
\* the result is stored.
C11_Witness ==
  /\ FluxoDone
  /\ fluxo.maxRetries = 2
  /\ fluxo.outcomes[1] # "ok" /\ fluxo.outcomes[2] # "ok"
  /\ fluxo.outcomes[1] # fluxo.outcomes[2]
  /\ fluxo.attempt = 3

\* Run r began with every item of its list pendente.
FreshRun(r) == \A k \in 1..Len(svc[r].began) : svc[r].began[k] = "pendente"

\* The positions of the session's items persisted with status erro
FailedItems(sid) == {k \in 1..Len(items[sid]) : items[sid][k].status = "erro"}

\* C12: a fresh run in which the login succeeded and no stop was requested
\* hands every item to the actor and ends with session status completed,
\* whatever item exhausted its attempts; when exactly one item did, the row
\* holds canceledRecords = N - 1 and errorRecords = 1, and that item is
\* persisted as erro with the message of its last attempt.
C12_ExhaustedItemDoesNotAbort ==
  \A r \in Runs :
    (svc[r].pc = "ended" /\ FreshRun(r) /\ svc[r].established /\ hist.stopAt = "none")
      => LET sid == svc[r].sessionId
             N == Len(svc[r].began)
         IN  /\ Attempted(svc[r]) = 1..N
             /\ sessions[sid].status = "completed"
             /\ svc[r].erros = 1 =>
                  /\ sessions[sid].canceledRecords = N - 1
                  /\ sessions[sid].errorRecords = 1
                  /\ \E k \in 1..N :
                       /\ FailedItems(sid) = {k}
                       /\ items[sid][k].observacao = ErrMsg(maxRetries)

\* Run r, a fresh run with a successful login and no stop requested, has
\* ended without any item exhausting its attempts.
EndedAllSucceeded(r) ==
  /\ svc[r].pc = "ended"
  /\ FreshRun(r)
  /\ svc[r].established
  /\ hist.stopAt = "none"
  /\ svc[r].erros = 0

\* C13: a fresh run of N pendente items in which every item succeeds and no
\* stop is requested ends with session status completed and processedRecords
\* = N, canceledRecords = N, errorRecords = 0.
C13_AllSucceedCompleted ==
  \A r \in Runs :
    EndedAllSucceeded(r)
      => LET row == sessions[svc[r].sessionId]
             N == Len(svc[r].began)
         IN  /\ row.status = "completed"
             /\ row.processedRecords = N
             /\ row.canceledRecords = N
             /\ row.errorRecords = 0

\* A fresh run of three items has ended with every item cancelado.
C13_Witness ==
  \E r \in Runs :
    /\ EndedAllSucceeded(r)
    /\ Len(svc[r].began) = 3
    /\ svc[r].attempts = <<1, 2, 3>>
    /\ \A k \in 1..3 : items[svc[r].sessionId][k].status = "cancelado"

\* C14: while an instance of AutomacaoService is running (isRunning), no
\* request begins a run: POST /api/executar is answered 400, which leaves the
\* session rows and the published status as they are.
C14_StartWhileRunningRejected ==
  [][(\E r \in Runs : svc[r].isRunning)
       => /\ Len(svc') = Len(svc)
          /\ Len(sessions') = Len(sessions)]_vars

\* The processarRegistros call of run r has not ended yet.
LoopActive(r) == svc[r].pc # "ended"

\* C15: at most one processarRegistros loop is active at a time (so that no
\* two runs have an item execution in flight together), also when a run is
\* begun after POST /api/parar has answered.
C15_SingleActiveLoop ==
  \A r \in Runs : \A q \in Runs :
    (r # q) => ~(LoopActive(r) /\ LoopActive(q))

\* The sessions persisted with status running or paused
ActiveSessions ==
  {sid \in 1..Len(sessions) : sessions[sid].status \in {"running", "paused"}}

\* C16: at most one session row has status running or paused.
C16_OneActiveSession == Cardinality(ActiveSessions) <= 1

\* The indices (1-based) of the records of a list that are processando
InProgress(recs) == {k \in 1..Len(recs) : recs[k].status = "processando"}

\* C17: while the session of a run is persisted as running, at most one of
\* its items is processando, in the array the loop holds and in the rows
\* persisted; and while a call of cancelarApolice is in flight, records[i] is
\* that one item.
C17_OneItemInProgress ==
  \A r \in Runs :
    sessions[svc[r].newId].status = "running"
      => /\ Cardinality(InProgress(RunRecs(lists, svc[r]))) <= 1
         /\ Cardinality(InProgress(items[svc[r].newId])) <= 1
         /\ svc[r].pc = "attempt" =>
              /\ InProgress(RunRecs(lists, svc[r])) = {svc[r].i + 1}
              /\ InProgress(items[svc[r].newId]) = {svc[r].i + 1}

\* C18: a session row whose status is completed, stopped or error is not
\* changed any more, in its status or in its counters.
C18_TerminalSessionFrozen ==
  [][\A sid \in 1..Len(sessions) :
       sessions[sid].status \in {"completed", "stopped", "error"}
         => sessions'[sid] = sessions[sid]]_vars

\* The step in which initialize() of run r throws: initBrowser or
\* executeLogin fails, or the page was closed under it.
InitializeFails(r) ==
  /\ svc[r].pc \in {"initBrowser", "login"}
  /\ svc'[r].pc = "catch"
  /\ ~svc'[r].established

\* C19: when initialize() fails, finishSession(sessionId, "error") is written
\* in that very step and no item is touched; initialize is not called again,
\* no item of the session is marked processando or handed to the actor, and
\* processarRegistros ends by throwing.
C19_InitializeFailureIsFatal ==
  [][\A r \in Runs :
       /\ InitializeFails(r)
            => /\ sessions'[svc[r].sessionId].status = "error"
               /\ items' = items /\ lists' = lists
       /\ (svc[r].pc = "catch" /\ ~svc[r].established)
            => /\ svc'[r].pc \in {"catch", "ended"}
               /\ ~svc'[r].established
               /\ svc'[r].attempts = <<>>
               /\ InProgress(items'[svc[r].sessionId]) = {}
               /\ svc'[r].pc = "ended" => svc'[r].result = "thrown"]_vars

\* A run whose login failed has ended: nothing was handed to the actor and
\* its session is persisted with status error.
C19_Witness ==
  \E r \in Runs :
    /\ svc[r].pc = "ended"
    /\ svc[r].page = "open"
    /\ ~svc[r].established
    /\ svc[r].result = "thrown"
    /\ svc[r].attempts = <<>>
    /\ sessions[svc[r].sessionId].status = "error"

\* The step in which run r publishes the outcome of an item:
\* StatusService.updateProgress(i + 1, cancelados, erros) after the item.
PublishesOutcome(r) ==
  /\ svc[r].pc \in {"marked", "attempt"}
  /\ svc'[r].pc = "saved"

\* C20: when the outcome of item i is published, the session row already
\* holds the counters that include item i and the item's row its final
\* status.
C20_PersistBeforePublish ==
  [][\A r \in Runs :
       PublishesOutcome(r)
         => LET sid == svc[r].sessionId
            IN  /\ sessions'[sid].processedRecords = status'.currentIndex
                /\ sessions'[sid].canceledRecords = status'.cancelados
                /\ sessions'[sid].errorRecords = status'.erros
                /\ items'[sid][svc[r].i + 1] = lists'[svc[r].list][svc[r].records[svc[r].i + 1]]]_vars

\* The step in which run r marks an item processando after it has processed
\* the item before it: item i is records[svc[r].i - 1], item i + 1 is marked.
MarksNext(r) ==
  /\ svc[r].pc \in {"top", "resumed"}
  /\ svc'[r].pc = "marked"
  /\ svc[r].i > svc[r].startIndex

\* C21: when item i + 1 is marked processando, the row of item i already
\* holds its final status (cancelado or erro) with a note, and the session
\* row the counters that include item i.
C21_SavedBeforeNextItem ==
  [][\A r \in Runs :
       MarksNext(r)
         => LET s == svc[r]
                sid == s.sessionId
            IN  /\ items[sid][s.i].status \in {"cancelado", "erro"}
                /\ items[sid][s.i].observacao # ""
                /\ sessions[sid].processedRecords = s.i
                /\ sessions[sid].canceledRecords = s.cancelados
                /\ sessions[sid].errorRecords = s.erros]_vars

\* C22: the items a run hands to processarRegistro are taken in strictly
\* ascending position order, none of them twice, and the first of them is
\* records[startIndex].
C22_AscendingOrder ==
  \A r \in Runs :
    LET a == svc[r].attempts
    IN  /\ \A j \in 1..Len(a) : \A k \in 1..Len(a) : j < k => a[j] < a[k]
        /\ a # <<>> => a[1] = svc[r].records[svc[r].startIndex + 1]

\* A run has ended that handed three items to processarRegistro, one of
\* which exhausted its attempts.
C22_Witness ==
  \E r \in Runs :
    /\ svc[r].pc = "ended"
    /\ Len(svc[r].attempts) = 3
    /\ svc[r].erros >= 1

\* C23: once stop has been requested during the execution of an item, the
\* page is not closed while a call of cancelarApolice is in flight, no
\* further attempt of the item begins after a backoff, and no further item
\* is marked processando.
C23_StopMidRetry ==
  [][hist.stopAt = "executing"
       => /\ ~(svc[1].pc = "attempt" /\ svc[1].page = "open" /\ svc'[1].page = "null")
          /\ ~(svc[1].pc = "backoff" /\ svc'[1].pc = "attempt")
          /\ ~(svc[1].pc # "marked" /\ svc'[1].pc = "marked")]_vars

\* C24: a run whose processarRegistros call has ended, by return or by
\* throw, holds no open page or browser: close() has been called.
C24_ReleasedWhenEnded ==
  \A r \in Runs : svc[r].pc = "ended" => svc[r].page = "null"

\* The items of the array of run s from startIndex on, as positions
FromStart(s) == {s.records[k] : k \in (s.startIndex + 1)..Len(s.records)}

\* C25: a run in which a checkpoint write was rejected (and the login had
\* succeeded) does not end by throwing and its session does not end with
\* status error: the run hands every item from startIndex on to the actor
\* and returns.
C25_WriteFailureDoesNotHalt ==
  \A r \in Runs :
    (hist.rejected /\ svc[r].pc = "ended")
      => /\ svc[r].result = "returned"
         /\ sessions[svc[r].sessionId].status # "error"
         /\ FromStart(svc[r]) \subseteq Attempted(svc[r])

\* No processarRegistros call is in progress: before any run, and after
\* every run has completed, been stopped or failed.
Idle == \A r \in Runs : svc[r].pc = "ended"

\* C26: while no run is active, no request sets isPaused: POST /api/pausar
\* is answered 400 and the published status is left as it is, so that it
\* does not come to show isPaused = true with isProcessing = false.
C26_PauseWhileIdleRejected ==
  [][(Idle /\ ~status.isPaused) => ~status'.isPaused]_vars

\* C27: a run in which a listener of the status event threw (the delivery
\* to a subscriber failed) does not end by throwing and its session does not
\* end with status error: the run hands every item from startIndex on to the
\* actor and returns.
C27_SubscriberFailureDoesNotHalt ==
  \A r \in Runs :
    (hist.threw /\ svc[r].pc = "ended")
      => /\ svc[r].result = "returned"
         /\ sessions[svc[r].sessionId].status # "error"
         /\ FromStart(svc[r]) \subseteq Attempted(svc[r])

\* processed / total as a percentage, rounded as Math.round does
Percent(processed, total) ==
  IF total > 0 THEN (200 * processed + total) \div (2 * total) ELSE 0

\* C28: the progress of the published status is processed / total as a
\* percentage, where processed is the number of items the run has brought to
\* cancelado or erro (the published cancelados + erros).
C28_ProgressIsProcessedOverTotal ==
  status.progress = Percent(status.cancelados + status.erros, status.total)

\* The number of addLog calls since the log buffer was last emptied
AddedSince == logs.added - logs.since

\* C29: the log buffer holds at most 100 entries, and they are the most
\* recently added ones, newest first: as many as were added since the buffer
\* was emptied, or the last 100 of them.
C29_LogBufferKeepsNewest ==
  /\ Len(GetLogs) <= LogCapacity
  /\ Len(GetLogs) = IF AddedSince < LogCapacity THEN AddedSince ELSE LogCapacity
  /\ \A k \in 1..Len(GetLogs) : GetLogs[k] = logs.added - k + 1

\* More than 100 entries have been added to the buffer, which is full:
\* the oldest have been dropped.
C29_Witness ==
  /\ AddedSince > LogCapacity
  /\ Len(GetLogs) = LogCapacity

\* C30: getActiveSession returns null exactly when no row has status running
\* or paused; otherwise it returns a row with status running or paused, and
\* none of the rows with such a status was created later than it.
C30_ActiveSessionIsLatest ==
  lookup.phase = "returned" =>
    LET tbl == lookup.table
        rows == WhereActive(tbl)
    IN  /\ lookup.result = 0 <=> rows = {}
        /\ lookup.result # 0 =>
             /\ lookup.result \in rows
             /\ \A j \in rows : tbl[j].started <= tbl[lookup.result].started

\* The call has returned a row created at an instant of two digits, with a
\* row running or paused created earlier at an instant of a greater last
\* digit, and a row completed, stopped or error created after both.
C30_Witness ==
  /\ lookup.phase = "returned"
  /\ lookup.result # 0
  /\ LET tbl == lookup.table
         got == tbl[lookup.result]
     IN  /\ got.started >= 10
         /\ \E j \in WhereActive(tbl) :
              /\ tbl[j].started < 10
              /\ tbl[j].started % 10 > got.started % 10
         /\ \E j \in 1..Len(tbl) :
              /\ j \notin WhereActive(tbl)
              /\ tbl[j].started > got.started

C32_ResumeKeepsSession ==
  \A r \in Runs :
    svc[r].kind = "resume"
      => /\ svc[r].newId = svc[r].resumeOf
         /\ svc[r].sessionId \in {0, svc[r].resumeOf}

\* The number of the first attempt that cancelarApolice answers with
\* success, 0 if none of the first maxRetries does
FirstSuccess ==
  IF \E k \in 1..fluxo.maxRetries : fluxo.outcomes[k] = "ok"
  THEN CHOOSE k \in 1..fluxo.maxRetries :
         /\ fluxo.outcomes[k] = "ok"
         /\ \A j \in 1..(k - 1) : fluxo.outcomes[j] # "ok"
  ELSE 0

\* C33: processarRegistro calls cancelarApolice at most maxRetries times and
\* not again after the first success, and it waits the backoff between two
\* calls only: one wait less than calls when it returns, none after the last
\* call.
C33_AttemptsBounded ==
  /\ fluxo.calls <= fluxo.maxRetries
  /\ fluxo.phase = "attempt" => fluxo.waits = fluxo.calls - 1
  /\ fluxo.phase = "backoff" =>
       fluxo.waits = fluxo.calls /\ fluxo.calls < fluxo.maxRetries
  /\ (fluxo.phase \in {"returned", "stored"} /\ fluxo.maxRetries >= 1) =>
       /\ fluxo.calls = IF FirstSuccess # 0 THEN FirstSuccess ELSE fluxo.maxRetries
       /\ fluxo.waits = fluxo.calls - 1

\* With maxRetries = 3 the call has returned the success of the third
\* attempt, after two failures and two backoffs.
C33_Witness ==
  /\ fluxo.phase = "returned"
  /\ fluxo.maxRetries = 3
  /\ FirstSuccess = 3
  /\ fluxo.calls = 3
  /\ fluxo.waits = 2

\* C34: a run blocked in the pause wait whose stop has been requested only
\* leaves the wait to exit the loop: no item is marked processando and none
\* is handed to the actor from then on.  A run that leaves the wait because
\* of a resume goes on with records[i], the item that was about to start
\* when it began to wait.
C34_PauseWaitStopAndResume ==
  [][\A r \in Runs :
       LET s == svc[r]
       IN  /\ (s.pc \in {"pause_wait", "finish", "ended"} /\ ~s.isRunning)
                => /\ svc'[r].pc \in {s.pc, "finish", "ended"}
                   /\ svc'[r].attempts = s.attempts
                   /\ svc'[r].i = s.i
                   /\ InProgress(RunRecs(lists', s)) \subseteq InProgress(RunRecs(lists, s))
           /\ (s.pc = "pause_wait" /\ svc'[r].pc # "pause_wait" /\ s.isRunning)
                => svc'[r].pc = "resumed" /\ svc'[r].i = s.i
           /\ (s.pc = "resumed" /\ svc'[r].pc = "marked")
                => /\ svc'[r].i = s.i
                   /\ lists'[s.list][s.records[s.i + 1]].status = "processando"]_vars

\* The run, stopped while it was blocked in the pause wait, has left the
\* loop, with items done before the pause and items left.
C34_Witness ==
  /\ svc # <<>>
  /\ hist.stopPc = "pause_wait"
  /\ svc[1].pc = "ended"
  /\ svc[1].result = "returned"
  /\ svc[1].i >= 1
  /\ svc[1].i < Len(svc[1].records)

\* C35: once the processarRegistros call of a run has ended, by return or
\* by throw, no row of its session has status processando.
C35_NoItemLeftInProgress ==
  \A r \in Runs :
    (svc[r].pc = "ended" /\ svc[r].sessionId # 0)
      => InProgress(items[svc[r].sessionId]) = {}

\* The number of the rows of session sid persisted with status st
RowsWith(tbl, sid, st) == Cardinality({k \in 1..Len(tbl[sid]) : tbl[sid][k].status = st})

\* C36: when the checkpoint after an item is written (saveRecords, then
\* updateSessionProgress(i + 1, cancelados, erros)), canceledRecords is the
\* number of the session's rows with status cancelado and errorRecords the
\* number with status erro.
C36_CountersAgreeWithItems ==
  [][\A r \in Runs :
       (svc[r].pc = "saved" /\ svc'[r].pc = "top")
         => LET sid == svc[r].sessionId
            IN  /\ sessions'[sid].canceledRecords = RowsWith(items', sid, "cancelado")
                /\ sessions'[sid].errorRecords = RowsWith(items', sid, "erro")]_vars

\* C37: the published progress is a percentage within 0..100; it is 0 while
\* no item has been processed, and it is 100 exactly when every item of the
\* total has been processed.
C37_ProgressPercentage ==
  LET processed == status.cancelados + status.erros
  IN  /\ status.progress \in 0..100
      /\ processed = 0 => status.progress = 0
      /\ status.total > 0 => (status.progress = 100 <=> processed = status.total)

\* C39: whatever maxRetries is, zero included, a record is stored with
\* status erro only after cancelarApolice has been called for it at least
\* once.
C39_FailedOnlyAfterAnAttempt ==
  (fluxo.phase = "stored" /\ fluxo.record.status = "erro") => fluxo.calls >= 1

\* C40: while a processarRegistros loop has an item in execution (marked
\* processando, its result not yet stored), the published status has
\* isProcessing = true.
C40_ProcessingWhileExecuting ==
  \A r \in Runs : Executing(svc[r]) => status.isProcessing

\* A processarRegistros call has been made and has not ended
RunInProgress == svc # <<>> /\ svc[1].pc # "ended"

\* The call has ended, isRunningCheck() is false and the published status
\* has isProcessing = false and isPaused = false
EndedClean ==
  /\ svc # <<>>
  /\ svc[1].pc = "ended"
  /\ ~svc[1].isRunning
  /\ ~status.isProcessing
  /\ ~status.isPaused

\* C38: when every await of the run settles and a run waiting in a pause
\* gets a resume or a stop, the processarRegistros call ends; at its end
\* isRunningCheck() is false and the published status has
\* isProcessing = false and isPaused = false.
C38_RunEndsClean ==
  /\ RunInProgress ~> EndedClean
  /\ [][(RunInProgress /\ ~RunInProgress') => EndedClean']_vars

\* The run has ended after a pause request was accepted and the run waited
\* in the pause until POST /api/parar.
C38_Witness ==
  /\ EndedClean
  /\ hist.pauses = 1
  /\ hist.stopPc = "pause_wait"
  /\ svc[1].result = "returned"

=============================================================================
